---------------------------- MODULE Spec2Model ----------------------------
(***************************************************************************)
(* Model of src/app.py: a Streamlit script that estimates the nutrition of *)
(* a meal from a photo (tab1), typed text (tab2) or a recording (tab3).    *)
(* One run of the script executes the three `with tab` blocks in order.    *)
(* Every HTTP call is split into the step that sends the request and the   *)
(* step that receives the response; the response is the environment's      *)
(* choice.  Strings are sequences of characters; the long literals of the  *)
(* program (prompts, failure messages) are one-element sequences.          *)
(*                                                                         *)
(* Scope: every request gets an HTTP response (network exceptions are not  *)
(* modelled); a response with status 200 is well formed as the service     *)
(* documents it; the body of a non-200 poll response carries no 'status'.  *)
(* The locals of a `with tab` block are not read after the block, so the   *)
(* model clears them when the next block reads its widget (detected_food,  *)
(* which the typed text may repeat, when the block after it does).         *)
(***************************************************************************)
EXTENDS Integers, Sequences, FiniteSets, TLC

\* ------------------------------------------------------------- bounds
\* longest text typed by the user or returned by a remote service
MaxLen == 2
\* the request and sleep counters stop counting here ("MaxCount or more")
MaxCount == 4

\* ---------------------------------------------------------- constants
HTTP_OK == 200
SleepInterval == 3

GEMINI_MODEL == "google/gemini-pro-vision"
GPT_MODEL == "openai/gpt-3.5-turbo"
FOOD_DETECTION_PROMPT == "Dari gambar ini, identifikasikan semua makanan yang terlihat. ..."
\* NUTRITION_CALCULATION_PROMPT is PromptHead {text} PromptTail
PromptHead == <<"\nBerikut ini adalah daftar makanan beserta jumlahnya:\n\n">>
PromptTail == <<"\n\nTugasmu: ... - Karbohidrat (g)\n">>

\* ------------------------------------------------------------- values
\* Python's None, a value no text equals
None == <<"<None>">>
\* a key the JSON body does not have
NoField == "<no such key>"
NoFile == "<no file>"
NoReq == [kind |-> "none", model |-> "", payload |-> <<>>]
NoResp == [status_code |-> 0, content |-> <<>>, text |-> ""]
NoResult == [status_code |-> 0, status |-> "", text |-> <<>>, error |-> ""]
NoError == [msg |-> "", status_code |-> 0, text |-> ""]

Chars == {" ", "a"}
Whitespace == {" "}
Texts == UNION {[1..n -> Chars] : n \in 0..MaxLen}

Tabs == {1, 2, 3}
Kinds == {"vision", "estimate", "upload", "submit", "poll"}

\* PIL image modes of an uploaded jpg/png
Images == {"RGB", "RGBA"}
AudioFiles == {"rec.wav"}
Urls == {"https://cdn/u1", "https://cdn/u2"}
Ids == {"j1", "j2"}
JobStatuses == {"queued", "processing", "completed", "error", "failed"}

\* responses of the chat endpoint: a completion, or an error body
ChatResponses ==
    [status_code : {200, 201}, content : Texts, text : {"{json}"}]
      \cup [status_code : {500}, content : {<<>>}, text : {"server error"}]

UploadResponses ==
    [status_code : {200}, content : Urls, text : {"{json}"}]
      \cup [status_code : {500}, content : {NoField}, text : {"upload refused"}]

SubmitResponses ==
    [status_code : {200}, content : Ids, text : {"{json}"}]
      \cup [status_code : {500}, content : {NoField}, text : {"bad request"}]

PollResponses ==
    [status_code : {200}, status : JobStatuses \ {"completed", "error"},
     text : {<<>>}, error : {""}]
      \cup [status_code : {200}, status : {"completed"}, text : Texts, error : {""}]
      \cup [status_code : {200}, status : {"error"}, text : {<<>>},
            error : {"transcoding failed"}]
      \cup [status_code : {500}, status : {NoField}, text : {<<>>}, error : {""}]

VARIABLES
    pc,                \* the statement the script run is at
    tab,               \* the `with tab` block being executed
    image,             \* tab1: the uploaded image (its mode), or NoFile
    detected_food,     \* tab1
    manual_text,       \* tab2
    hitung_button,     \* tab2
    audio_file,        \* tab3
    transcribed_text,  \* tab3
    nutrition_info,    \* rebound by each block
    response,          \* transcribe_audio / openrouter_chat: last response
    audio_url,         \* transcribe_audio
    transcript_id,     \* transcribe_audio
    result,            \* transcribe_audio: poll_response.json()
    req,               \* the last request sent
    outstanding,       \* requests sent and not yet answered
    nreq,              \* requests sent in this run, by block and kind
    sleeps,            \* time.sleep calls of this run
    clock,             \* time slept in this run
    waits,             \* poll responses of this run that reported a job still
                       \* under way (any status but completed and error)
    out,               \* what the run has put on the page: [tab, kind]
    written,           \* the text of the last st.write
    lastError          \* the last st.error

vars == <<pc, tab, image, detected_food, manual_text, hitung_button, audio_file,
          transcribed_text, nutrition_info, response, audio_url, transcript_id,
          result, req, outstanding, nreq, sleeps, clock, waits, out, written,
          lastError>>

widgets == <<image, manual_text, hitung_button, audio_file>>
locals == <<detected_food, transcribed_text, nutrition_info>>
jobvars == <<audio_url, transcript_id, result>>
timevars == <<sleeps, clock, waits>>
page == <<out, written, lastError>>

\* ------------------------------------------------------ pure functions
\* Python truthiness of a str-or-None value
Truthy(v) == v # None /\ v # <<>>

RECURSIVE LStrip(_)
LStrip(s) == IF s # <<>> /\ Head(s) \in Whitespace THEN LStrip(Tail(s)) ELSE s

RECURSIVE RStrip(_)
RStrip(s) ==
    IF s # <<>> /\ s[Len(s)] \in Whitespace THEN RStrip(SubSeq(s, 1, Len(s) - 1)) ELSE s

\* str.strip()
Strip(s) == RStrip(LStrip(s))

\* mutant: the listing is trimmed before it is put into the template
FormatPromptTrimmed(food_list_text) ==
    PromptHead \o Strip(food_list_text) \o PromptTail

\* NUTRITION_CALCULATION_PROMPT.format(text=food_list_text)
FormatPrompt(food_list_text) == PromptHead \o food_list_text \o PromptTail

\* Image.save(format="JPEG") writes these modes and raises OSError on the others
JpegModes == {"1", "L", "RGB", "RGBX", "CMYK", "YCbCr"}
CanEncode(img) == img \in JpegModes
encode_image_to_base64(img) == <<"base64-jpeg", img>>

Inc(n) == IF n < MaxCount THEN n + 1 ELSE n

\* the counters after one more request of kind k in block t
Count(t, k) == [nreq EXCEPT ![t][k] = Inc(@)]

\* what the request is: a chat request is the vision one iff it goes to GEMINI
KindOf(r) ==
    IF r.kind = "chat" THEN (IF r.model = GEMINI_MODEL THEN "vision" ELSE "estimate")
    ELSE r.kind

\* mutant: every status of the success class counts as success
ChatOkAny2xx(resp) == resp.status_code \in 200..299

\* openrouter_chat's `if response.status_code == 200`
ChatOk(resp) == resp.status_code = HTTP_OK

\* mutant: the content is returned without looking at the status
ChatReturnUnchecked(resp) == resp.content

\* openrouter_chat's return value
ChatReturn(resp) == IF ChatOk(resp) THEN resp.content ELSE None

\* openrouter_chat's st.error, if any
ChatError(resp) ==
    IF ChatOk(resp) THEN lastError
    ELSE [msg |-> "Error OpenRouter", status_code |-> resp.status_code,
          text |-> resp.text]

\* the argument each block passes to calculate_nutrition
FoodArg ==
    CASE tab = 1 -> detected_food
      [] tab = 2 -> manual_text
      [] OTHER -> transcribed_text

\* where the script goes after a block
AfterTab(t) == CASE t = 1 -> "tab2" [] t = 2 -> "tab3" [] OTHER -> "done"

\* the poll loop's branches on result['status']
\* mutant: the success branch tests a status the service never reports
IsCompletedWrongLiteral(status) == status = "complete"
IsCompleted(status) == status = "completed"
\* mutant: the failure branch tests the wrong literal
IsErrorWrongLiteral(status) == status = "failed"
IsError(status) == status = "error"

PollEndpoint(id) == <<"/v2/transcript/", id>>

\* ---------------------------------------------------------------- Init
Init ==
    /\ pc = "tab1"
    /\ tab = 1
    /\ image = NoFile
    /\ detected_food = None
    /\ manual_text = <<>>
    /\ hitung_button = FALSE
    /\ audio_file = NoFile
    /\ transcribed_text = None
    /\ nutrition_info = None
    /\ response = NoResp
    /\ audio_url = NoField
    /\ transcript_id = NoField
    /\ result = NoResult
    /\ req = NoReq
    /\ outstanding = 0
    /\ nreq = [t \in Tabs |-> [k \in Kinds |-> 0]]
    /\ sleeps = 0
    /\ clock = 0
    /\ waits = 0
    /\ out = {}
    /\ written = None
    /\ lastError = NoError


\* ------------------------------------------------------------- actions
\* a new run of the script (any user interaction reruns it from the top)
Rerun ==
    /\ pc \in {"done", "crashed"}
    /\ pc' = "tab1"
    /\ tab' = 1
    /\ image' = NoFile
    /\ detected_food' = None
    /\ manual_text' = <<>>
    /\ hitung_button' = FALSE
    /\ audio_file' = NoFile
    /\ transcribed_text' = None
    /\ nutrition_info' = None
    /\ response' = NoResp
    /\ audio_url' = NoField
    /\ transcript_id' = NoField
    /\ result' = NoResult
    /\ req' = NoReq
    /\ outstanding' = 0
    /\ nreq' = [t \in Tabs |-> [k \in Kinds |-> 0]]
    /\ sleeps' = 0
    /\ clock' = 0
    /\ waits' = 0
    /\ out' = {}
    /\ written' = None
    /\ lastError' = NoError

\* requests.post / requests.get: the request leaves
Send(r) ==
    /\ req' = r
    /\ outstanding' = outstanding + 1
    /\ nreq' = Count(tab, KindOf(r))

\* tab1: uploaded_file = st.file_uploader(...); if uploaded_file: Image.open
Tab1Widget ==
    /\ pc = "tab1"
    /\ \E f \in {NoFile} \cup Images :
          /\ image' = f
          /\ pc' = IF f = NoFile THEN "tab2" ELSE "detect"
    /\ UNCHANGED <<tab, detected_food, manual_text, hitung_button, audio_file,
                   transcribed_text, nutrition_info, response, jobvars, req,
                   outstanding, nreq, timevars, page>>

\* detect_food_from_image up to requests.post: encode, build messages, send
DetectSend ==
    /\ pc = "detect"
    /\ IF CanEncode(image)
       THEN /\ Send([kind |-> "chat", model |-> GEMINI_MODEL,
                     payload |-> <<FOOD_DETECTION_PROMPT>>
                                   \o encode_image_to_base64(image)])
            /\ pc' = "detect_wait"
       ELSE /\ pc' = "crashed"
            /\ UNCHANGED <<req, outstanding, nreq>>
    /\ UNCHANGED <<tab, widgets, locals, response, jobvars, timevars, page>>

\* openrouter_chat returns to tab1: detected_food = ...; if detected_food:
DetectRecv ==
    /\ pc = "detect_wait"
    /\ \E resp \in ChatResponses :
          /\ response' = resp
          /\ detected_food' = ChatReturn(resp)
          /\ lastError' = ChatError(resp)
          /\ IF Truthy(ChatReturn(resp))
             THEN /\ out' = out \cup {[tab |-> 1, kind |-> "listing"]}
                  /\ written' = ChatReturn(resp)
                  /\ pc' = "calc"
             ELSE /\ pc' = AfterTab(1)
                  /\ UNCHANGED <<out, written>>
    /\ outstanding' = outstanding - 1
    /\ UNCHANGED <<tab, widgets, transcribed_text, nutrition_info, jobvars, req,
                   nreq, timevars>>

\* mutant: a listing already estimated in this run is not sent again
CalcSendMemoized ==
    /\ pc = "calc"
    /\ IF tab = 2 /\ manual_text = detected_food
       THEN /\ pc' = AfterTab(tab)
            /\ UNCHANGED <<req, outstanding, nreq>>
       ELSE /\ Send([kind |-> "chat", model |-> GPT_MODEL,
                     payload |-> FormatPrompt(FoodArg)])
            /\ pc' = "calc_wait"
    /\ UNCHANGED <<tab, widgets, locals, response, jobvars, timevars, page>>

\* calculate_nutrition up to requests.post
CalcSend ==
    /\ pc = "calc"
    /\ Send([kind |-> "chat", model |-> GPT_MODEL,
             payload |-> FormatPrompt(FoodArg)])
    /\ pc' = "calc_wait"
    /\ UNCHANGED <<tab, widgets, locals, response, jobvars, timevars, page>>

\* openrouter_chat returns: nutrition_info = ...; if nutrition_info: st.write
CalcRecv ==
    /\ pc = "calc_wait"
    /\ \E resp \in ChatResponses :
          /\ response' = resp
          /\ nutrition_info' = ChatReturn(resp)
          /\ lastError' = ChatError(resp)
          /\ IF Truthy(ChatReturn(resp))
             THEN /\ out' = out \cup {[tab |-> tab, kind |-> "report"]}
                  /\ written' = ChatReturn(resp)
             ELSE UNCHANGED <<out, written>>
    /\ outstanding' = outstanding - 1
    /\ pc' = AfterTab(tab)
    /\ UNCHANGED <<tab, widgets, detected_food, transcribed_text, jobvars, req,
                   nreq, timevars>>

\* mutant: the input is compared with "" without strip()
IsBlankUnstripped(text) == text = <<>>

\* the text block rejects the input iff this holds
IsBlank(text) == Strip(text) = <<>>

\* tab2: manual_text = st.text_area(...); hitung_button = st.button(...);
\* if hitung_button: if manual_text.strip() == "": st.warning(...)
Tab2Widget ==
    /\ pc = "tab2"
    /\ tab' = 2
    /\ \E t \in Texts, b \in BOOLEAN :
          /\ manual_text' = t
          /\ hitung_button' = b
          /\ IF b /\ IsBlank(t)
             THEN out' = out \cup {[tab |-> 2, kind |-> "warning"]}
             ELSE out' = out
          /\ pc' = IF b /\ ~IsBlank(t) THEN "calc" ELSE AfterTab(2)
    /\ image' = NoFile
    /\ nutrition_info' = None
    /\ response' = NoResp
    /\ req' = NoReq
    /\ written' = None
    /\ lastError' = NoError
    /\ UNCHANGED <<detected_food, audio_file, transcribed_text, jobvars,
                   outstanding, nreq, timevars>>

\* tab3: audio_file = st.file_uploader(...); if audio_file:
Tab3Widget ==
    /\ pc = "tab3"
    /\ tab' = 3
    /\ \E f \in {NoFile} \cup AudioFiles :
          /\ audio_file' = f
          /\ pc' = IF f = NoFile THEN "done" ELSE "upload"
    /\ detected_food' = None
    /\ manual_text' = <<>>
    /\ hitung_button' = FALSE
    /\ nutrition_info' = None
    /\ response' = NoResp
    /\ req' = NoReq
    /\ written' = None
    /\ lastError' = NoError
    /\ UNCHANGED <<image, transcribed_text, jobvars, outstanding, nreq,
                   timevars, out>>

\* the strings transcribe_audio returns on failure
UploadFailed == <<"Upload gagal!">>
SubmitFailed == <<"Request transkrip gagal!">>
TranscriptionFailed == <<"Transkripsi gagal!">>
FailureStrings == {UploadFailed, SubmitFailed, TranscriptionFailed}

\* mutant: the guard is `if transcribed_text is not None:`
AudioProceedsNotNone(text) == text # None

\* tab3's `if transcribed_text:` guarding the estimate
AudioProceeds(text) == Truthy(text)

\* transcribe_audio returns v to tab3: transcribed_text = v; if transcribed_text:
Tab3Return(v) ==
    /\ transcribed_text' = v
    /\ IF AudioProceeds(v)
       THEN /\ out' = out \cup {[tab |-> 3, kind |-> "listing"]}
            /\ written' = v
            /\ pc' = "calc"
       ELSE /\ pc' = AfterTab(3)
            /\ UNCHANGED <<out, written>>

\* mutant: the upload is sent and the code goes on without its response
UploadSendNoWait ==
    /\ pc = "upload"
    /\ Send([kind |-> "upload", model |-> "", payload |-> <<audio_file>>])
    /\ pc' = "submit"
    /\ UNCHANGED <<tab, widgets, locals, response, jobvars, timevars, page>>

\* transcribe_audio, step 1: requests.post(upload_endpoint, data=file)
UploadSend ==
    /\ pc = "upload"
    /\ Send([kind |-> "upload", model |-> "", payload |-> <<audio_file>>])
    /\ pc' = "upload_wait"
    /\ UNCHANGED <<tab, widgets, locals, response, jobvars, timevars, page>>

\* step 1, the response: if response.status_code != 200: return "Upload gagal!"
UploadRecv ==
    /\ pc = "upload_wait"
    /\ outstanding' = outstanding - 1
    /\ \E resp \in UploadResponses :
          /\ response' = resp
          /\ IF resp.status_code # HTTP_OK
             THEN /\ lastError' = [msg |-> "Upload gagal", status_code |-> 0,
                                   text |-> resp.text]
                  /\ Tab3Return(UploadFailed)
                  /\ UNCHANGED audio_url
             ELSE /\ audio_url' = resp.content
                  /\ pc' = "submit"
                  /\ UNCHANGED <<transcribed_text, page>>
    /\ UNCHANGED <<tab, widgets, detected_food, nutrition_info, transcript_id,
                   result, req, nreq, timevars>>

\* mutant: the request names a fixed audio, not the one just uploaded
SubmitPayloadFixed == <<"https://cdn/u1", "universal">>

\* the audio the transcription request names
SubmitPayload == <<audio_url, "universal">>

\* step 2: requests.post(transcript_endpoint, json={"audio_url": audio_url, ...})
SubmitSend ==
    /\ pc = "submit"
    /\ Send([kind |-> "submit", model |-> "", payload |-> SubmitPayload])
    /\ pc' = "submit_wait"
    /\ UNCHANGED <<tab, widgets, locals, response, jobvars, timevars, page>>

\* step 2, the response: if response.status_code != 200: return "Request ..."
SubmitRecv ==
    /\ pc = "submit_wait"
    /\ outstanding' = outstanding - 1
    /\ \E resp \in SubmitResponses :
          /\ response' = resp
          /\ IF resp.status_code # HTTP_OK
             THEN /\ lastError' = [msg |-> "Request transkrip gagal",
                                   status_code |-> 0, text |-> resp.text]
                  /\ Tab3Return(SubmitFailed)
                  /\ UNCHANGED transcript_id
             ELSE /\ transcript_id' = resp.content
                  /\ pc' = "poll"
                  /\ UNCHANGED <<transcribed_text, page>>
    /\ UNCHANGED <<tab, widgets, detected_food, nutrition_info, audio_url,
                   result, req, nreq, timevars>>

\* step 3: poll_response = requests.get(polling_endpoint)
PollSend ==
    /\ pc = "poll"
    /\ Send([kind |-> "poll", model |-> "", payload |-> PollEndpoint(transcript_id)])
    /\ pc' = "poll_wait"
    /\ UNCHANGED <<tab, widgets, locals, response, jobvars, timevars, page>>

\* step 3, the response r: result = poll_response.json(); the branches on
\* result['status'] (a body without 'status' raises KeyError)
PollRecv(r) ==
    /\ pc = "poll_wait"
    /\ outstanding' = outstanding - 1
    /\ result' = r
    /\ waits' = IF r.status \in JobStatuses \ {"completed", "error"}
                THEN Inc(waits) ELSE waits
    /\ IF r.status = NoField
       THEN /\ pc' = "crashed"
            /\ UNCHANGED <<transcribed_text, page>>
       ELSE IF IsCompleted(r.status)
       THEN /\ Tab3Return(r.text)
            /\ UNCHANGED lastError
       ELSE IF IsError(r.status)
       THEN /\ lastError' = [msg |-> "Transkripsi gagal", status_code |-> 0,
                             text |-> r.error]
            /\ Tab3Return(TranscriptionFailed)
       ELSE /\ pc' = "sleep"
            /\ UNCHANGED <<transcribed_text, page>>
    /\ UNCHANGED <<tab, widgets, detected_food, nutrition_info, response,
                   audio_url, transcript_id, req, nreq, sleeps, clock>>

\* the statuses on which the loop returns
LoopEnding == {"completed", "error"}

\* a poll answered with a status that ends the loop
PollRecvEnding == \E r \in PollResponses : r.status \in LoopEnding /\ PollRecv(r)

\* a poll answered with anything else
PollRecvOther == \E r \in PollResponses : r.status \notin LoopEnding /\ PollRecv(r)

\* mutant: the loop polls again without sleeping
SleepSkipped ==
    /\ pc = "sleep"
    /\ pc' = "poll"
    /\ UNCHANGED <<tab, widgets, locals, response, jobvars, req, outstanding,
                   nreq, timevars, page>>

\* the loop's else branch: time.sleep(3), then the next iteration
Sleep ==
    /\ pc = "sleep"
    /\ clock' = IF sleeps < MaxCount THEN clock + SleepInterval ELSE clock
    /\ sleeps' = Inc(sleeps)
    /\ pc' = "poll"
    /\ UNCHANGED <<tab, widgets, locals, response, jobvars, req, outstanding,
                   nreq, waits, page>>

Next ==
    \/ Rerun
    \/ Tab1Widget
    \/ DetectSend
    \/ DetectRecv
    \/ CalcSend
    \/ CalcRecv
    \/ Tab2Widget
    \/ Tab3Widget
    \/ UploadSend
    \/ UploadRecv
    \/ SubmitSend
    \/ SubmitRecv
    \/ PollSend
    \/ PollRecvEnding
    \/ PollRecvOther
    \/ Sleep

Spec == Init /\ [][Next]_vars

\* a step of the running script (a rerun is the user's choice, not the script's)
ScriptStep ==
    \/ Tab1Widget \/ DetectSend \/ DetectRecv \/ CalcSend \/ CalcRecv
    \/ Tab2Widget \/ Tab3Widget \/ UploadSend \/ UploadRecv \/ SubmitSend
    \/ SubmitRecv \/ PollSend \/ PollRecvEnding \/ PollRecvOther \/ Sleep

\* a poll answered with one of the statuses the data model calls terminal
PollRecvReported ==
    \E r \in PollResponses :
        r.status \in {"completed", "failed", "error"} /\ PollRecv(r)

\* The script runs on while it has a statement to execute, every request is
\* answered, and a job that is polled again and again eventually reports
\* completed, failed or error.
FairSpec == Spec /\ WF_vars(ScriptStep) /\ SF_vars(PollRecvReported)

\* ---------------------------------------------------------- properties
Polls == nreq[3]["poll"]
InLoop == pc \in {"poll", "poll_wait", "sleep"}
\* the poll counter has not reached the value at which it stops counting
Counted == Polls < MaxCount
Shown(t, k) == [tab |-> t, kind |-> k] \in out

C2_Claim ==
    transcribed_text \in FailureStrings =>
        nreq[3]["estimate"] = 0 /\ ~Shown(3, "report")

\* C3: a run of the poll loop that sees n responses of a job still under way
\* and then 'completed' has sent n+1 polls and slept n times, 3 units each,
\* once after each such response (the counters agree before every poll: no
\* sleep before the first one, none after 'completed'), and returns the text
\* of the 'completed' response.
C3_Theorem ==
    /\ pc = "poll" /\ Counted => Polls = sleeps /\ sleeps = waits
    /\ pc = "poll_wait" /\ Counted => Polls = sleeps + 1 /\ sleeps = waits
    /\ pc = "sleep" /\ Counted => Polls = sleeps + 1 /\ waits = sleeps + 1
    /\ result.status = "completed" =>
          /\ ~InLoop
          /\ transcribed_text = result.text
          /\ Counted =>
                /\ Polls = waits + 1
                /\ sleeps = waits
                /\ clock = SleepInterval * waits

\* [queued, processing, completed] with a text: 3 polls, 2 sleeps, 6 units
C3_Witness ==
    /\ pc = "calc"
    /\ result.status = "completed"
    /\ transcribed_text = <<"a", " ">>
    /\ Polls = 3
    /\ sleeps = 2
    /\ clock = 6

\* C4: upload, submit, poll in this order and gated on success. There is at
\* most one upload and one submit; a submit was preceded by the one upload,
\* which succeeded, and names the upload_url of its response; a poll was
\* preceded by the submit, which succeeded, and goes to the id of its response;
\* after a failed upload there is no submit and no poll, after a failed submit
\* no poll.
C4_Theorem ==
    /\ nreq[3]["upload"] <= 1 /\ nreq[3]["submit"] <= 1
    /\ nreq[3]["submit"] = 1 => nreq[3]["upload"] = 1 /\ audio_url \in Urls
    /\ Polls > 0 => nreq[3]["submit"] = 1 /\ transcript_id \in Ids
    /\ pc = "submit_wait" =>
          /\ response.status_code = HTTP_OK
          /\ req.kind = "submit"
          /\ req.payload[1] = response.content
    /\ pc = "poll_wait" =>
          /\ response.status_code = HTTP_OK
          /\ req.kind = "poll"
          /\ req.payload = <<"/v2/transcript/", response.content>>
    /\ transcribed_text = UploadFailed =>
          nreq[3]["upload"] = 1 /\ nreq[3]["submit"] = 0 /\ Polls = 0
    /\ transcribed_text = SubmitFailed => nreq[3]["submit"] = 1 /\ Polls = 0
    /\ tab = 3 /\ pc \in {"calc", "done"} /\ audio_file # NoFile /\ Polls = 0 =>
          transcribed_text \in {UploadFailed, SubmitFailed}

C4_Witness ==
    /\ pc = "poll_wait"
    /\ audio_url = "https://cdn/u2"
    /\ req.payload = PollEndpoint("j2")
    /\ Polls = 2

AllWhitespace(t) == \A i \in 1..Len(t) : t[i] = " "
Estimates(t) == nreq[t]["estimate"]

\* C6: in the text block, pressing the button with an empty or all-whitespace
\* text shows the warning and sends no request; with any other text the block
\* sends exactly one request, a chat request to the text model; the block never
\* sends a vision, upload, submit or poll request.
C6_Theorem ==
    /\ \A k \in Kinds \ {"estimate"} : nreq[2][k] = 0
    /\ Estimates(2) <= 1
    /\ tab = 2 =>
          /\ hitung_button /\ AllWhitespace(manual_text) =>
                /\ Shown(2, "warning")
                /\ Estimates(2) = 0
                /\ pc = "tab3"
          /\ hitung_button /\ ~AllWhitespace(manual_text) =>
                /\ ~Shown(2, "warning")
                /\ pc \in {"calc", "calc_wait", "tab3"}
                /\ pc = "calc" => Estimates(2) = 0
                /\ pc \in {"calc_wait", "tab3"} =>
                      /\ Estimates(2) = 1
                      /\ req.kind = "chat"
                      /\ req.model = GPT_MODEL
          /\ ~hitung_button => Estimates(2) = 0 /\ ~Shown(2, "warning")

C6_Witness ==
    /\ tab = 2
    /\ pc = "tab3"
    /\ hitung_button
    /\ manual_text = <<" ", " ">>
    /\ Shown(2, "warning")
    /\ \A k \in Kinds : nreq[2][k] = 0

\* C7: in the image block calculate_nutrition is called only after
\* detect_food_from_image returned a result: a failed extraction (the chat
\* endpoint answered with a status other than 200, the call returned None) ends
\* the block with no estimate request and no report.
C7_Theorem ==
    /\ Estimates(1) <= nreq[1]["vision"]
    /\ Shown(1, "report") => Estimates(1) = 1 /\ nreq[1]["vision"] = 1
    /\ tab = 1 /\ pc = "calc" =>
          /\ response.status_code = HTTP_OK
          /\ detected_food = response.content
          /\ Truthy(detected_food)
    /\ tab = 1 /\ Estimates(1) > 0 => Truthy(detected_food)
    /\ tab = 1 /\ detected_food = None =>
          /\ Estimates(1) = 0
          /\ ~Shown(1, "report")
          /\ pc \notin {"calc", "calc_wait"}

C7_Witness ==
    /\ tab = 1
    /\ pc = "tab2"
    /\ nreq[1]["vision"] = 1
    /\ lastError.status_code = 500
    /\ detected_food = None
    /\ Estimates(1) = 0

\* the request content is the template with text t in place of {text}
Verbatim(content, t) ==
    /\ Len(content) = Len(t) + 2
    /\ content[1] = PromptHead[1]
    /\ content[Len(content)] = PromptTail[1]
    /\ SubSeq(content, 2, Len(t) + 1) = t

\* C8: the estimate request carries the template with the block's text put in
\* verbatim: the content of the extraction response (image), the text as typed,
\* unstripped (text), the value transcribe_audio returned, which is the text of
\* the 'completed' response (audio); and the report written on the page is the
\* content of the estimate response, unchanged.
C8_Theorem ==
    /\ pc = "calc_wait" =>
          /\ req.kind = "chat"
          /\ req.model = GPT_MODEL
          /\ tab = 1 => Verbatim(req.payload, detected_food)
                          /\ detected_food = response.content
          /\ tab = 2 => Verbatim(req.payload, manual_text)
          /\ tab = 3 => Verbatim(req.payload, transcribed_text)
                          /\ (result.status = "completed" =>
                                transcribed_text = result.text)
    /\ pc = AfterTab(tab) /\ Shown(tab, "report") =>
          /\ response.status_code = HTTP_OK
          /\ nutrition_info = response.content
          /\ written = response.content

C8_Witness ==
    /\ tab = 1
    /\ pc = "tab2"
    /\ detected_food = <<" ", "a">>
    /\ req.payload = PromptHead \o <<" ", "a">> \o PromptTail
    /\ Shown(1, "report")
    /\ written = <<"a", " ">>

\* the extraction call of this run is over and nothing came after it
DetectOver ==
    /\ tab = 1
    /\ image # NoFile
    /\ pc \in {"calc", "tab2", "crashed"}
    /\ Estimates(1) = 0

\* C9: for any image, detect_food_from_image sends exactly one request and ends
\* in exactly one of: a non-empty text, or an error (never both, never a
\* success that is empty).
C9_Claim ==
    DetectOver =>
        /\ nreq[1]["vision"] = 1
        /\ \/ Truthy(detected_food) /\ lastError = NoError
           \/ detected_food = None /\ lastError # NoError

\* a chat call has just returned: the extraction, or a block's estimate
ChatOverDetect == DetectOver /\ pc # "crashed"
ChatOverEstimate == pc = AfterTab(tab) /\ Estimates(tab) >= 1

\* C10 (as stated): a chat call returns an error exactly when the status is
\* outside the success class 200..299.
C10_Original ==
    /\ ChatOverDetect =>
          (detected_food = None <=> response.status_code \notin 200..299)
    /\ ChatOverEstimate =>
          (nutrition_info = None <=> response.status_code \notin 200..299)

\* the st.error of openrouter_chat for the response
OpenRouterError ==
    [msg |-> "Error OpenRouter", status_code |-> response.status_code,
     text |-> response.text]

\* C10 (amended): a chat call returns an error (None, after an st.error with
\* the status and the body) exactly when the status is not 200, and the
\* response's content when it is 200; either way it has sent one request.
C10_Amended ==
    /\ ChatOverDetect =>
          /\ nreq[1]["vision"] = 1
          /\ outstanding = 0
          /\ response.status_code = HTTP_OK =>
                detected_food = response.content /\ lastError = NoError
          /\ response.status_code # HTTP_OK =>
                detected_food = None /\ lastError = OpenRouterError
    /\ ChatOverEstimate =>
          /\ Estimates(tab) = 1
          /\ outstanding = 0
          /\ response.status_code = HTTP_OK =>
                /\ nutrition_info = response.content
                /\ lastError.msg # "Error OpenRouter"
          /\ response.status_code # HTTP_OK =>
                nutrition_info = None /\ lastError = OpenRouterError

C10_Witness ==
    /\ ChatOverEstimate
    /\ tab = 2
    /\ response.status_code = 201
    /\ response.content = <<"a">>
    /\ nutrition_info = None
    /\ lastError.status_code = 201

\* the blocks that have sent a request in this run
ActiveTabs == {t \in Tabs : \E k \in Kinds : nreq[t][k] > 0}

\* C11: the requests of one run of the script (one user action) all belong to
\* one modality's block: no run sends the vision or the transcription requests
\* together with another block's requests.
C11_Claim == Cardinality(ActiveTabs) <= 1

\* the statements at which the script is blocked in a requests call
Waiting == {"detect_wait", "calc_wait", "upload_wait", "submit_wait", "poll_wait"}

\* C12: the calls of a run are strictly sequential: at most one request is
\* outstanding, and one is outstanding exactly while the script is blocked in
\* that call; the estimate request of the image block is sent after the
\* extraction call has returned, and the one of the audio block after
\* transcribe_audio (upload, submit and every poll) has returned.
C12_Theorem ==
    /\ outstanding \in {0, 1}
    /\ outstanding = 1 <=> pc \in Waiting
    /\ pc = "calc_wait" /\ tab = 1 =>
          /\ nreq[1]["vision"] = 1
          /\ detected_food # None
          /\ req.model = GPT_MODEL
    /\ pc = "calc_wait" /\ tab = 3 =>
          /\ nreq[3]["upload"] = 1
          /\ transcribed_text # None
          /\ req.model = GPT_MODEL
          /\ Polls = 0 => transcribed_text \in {UploadFailed, SubmitFailed}
          /\ Polls > 0 => result.status \in LoopEnding
    /\ InLoop \/ pc \in {"upload", "upload_wait", "submit", "submit_wait"} =>
          Estimates(3) = 0 /\ transcribed_text = None
    /\ pc \in {"detect", "detect_wait"} => Estimates(1) = 0 /\ detected_food = None

\* the audio block's estimate is outstanding after a loop of three polls
C12_Witness ==
    /\ pc = "calc_wait"
    /\ tab = 3
    /\ outstanding = 1
    /\ Polls = 3
    /\ result.status = "completed"
    /\ nreq[1]["vision"] = 1

\* block t has called calculate_nutrition and the call has sent its request
Called(t) ==
    CASE t = 2 -> tab = 2 /\ hitung_button /\ ~AllWhitespace(manual_text)
                    /\ pc # "calc"
      [] OTHER -> Shown(t, "listing") /\ ~(tab = t /\ pc = "calc")

\* C13: nothing is memoized: each call of calculate_nutrition sends one
\* request of its own, whatever was asked and answered before in the run. In
\* particular, when the text typed in the text block is the listing the image
\* block has already had estimated, the text block sends a second request
\* with the same content.
C13_Theorem ==
    /\ Estimates(1) = IF Called(1) THEN 1 ELSE 0
    /\ Estimates(3) = IF Called(3) THEN 1 ELSE 0
    /\ tab = 2 => Estimates(2) = IF Called(2) THEN 1 ELSE 0
    /\ pc = "calc" => outstanding = 0
    /\ pc = "calc_wait" => outstanding = 1 /\ KindOf(req) = "estimate"
    /\ tab = 2 /\ pc = "calc_wait" /\ manual_text = detected_food =>
          /\ Estimates(1) = 1
          /\ Estimates(2) = 1
          /\ req.payload = PromptHead \o detected_food \o PromptTail

\* the text block asks for the listing the image block asked for
C13_Witness ==
    /\ tab = 2
    /\ pc = "calc_wait"
    /\ detected_food = <<"a">>
    /\ manual_text = <<"a">>
    /\ Shown(1, "report")
    /\ Estimates(1) = 1
    /\ Estimates(2) = 1
    /\ outstanding = 1

\* C14: each of the four kinds of remote call looks at the HTTP status before
\* it reads a field of the body, and a status other than 200 gives an error
\* outcome: None from the chat call, "Upload gagal!" from the upload,
\* "Request transkrip gagal!" from the submit and, for a poll, the
\* transcription failure result (never an exception from reading the body).
C14_Claim ==
    /\ ChatOverEstimate /\ response.status_code # HTTP_OK => nutrition_info = None
    /\ pc = "submit" => response.status_code = HTTP_OK
    /\ pc = "poll" /\ Polls = 0 => response.status_code = HTTP_OK
    /\ result.status_code \notin {0, HTTP_OK} =>
          pc # "crashed" /\ transcribed_text = TranscriptionFailed

\* C15: no estimate request carries an empty listing. The image and the audio
\* block skip the estimate when the previous step gave "" or None, the text
\* block when the text is empty or all whitespace; a listing of whitespace
\* only is estimated in the image and audio blocks.
C15_Theorem ==
    /\ pc \in {"calc", "calc_wait"} => FoodArg # <<>> /\ FoodArg # None
    /\ pc = "calc_wait" => Len(req.payload) > Len(PromptHead) + Len(PromptTail)
    /\ tab = 1 /\ detected_food \in {<<>>, None} =>
          Estimates(1) = 0 /\ pc \notin {"calc", "calc_wait"}
    /\ transcribed_text \in {<<>>, None} =>
          Estimates(3) = 0 /\ ~(tab = 3 /\ pc \in {"calc", "calc_wait"})
    /\ tab = 2 /\ pc \in {"calc", "calc_wait"} => ~AllWhitespace(manual_text)
    /\ tab = 2 /\ AllWhitespace(manual_text) => Estimates(2) = 0
    /\ tab = 1 /\ pc = "tab2" /\ detected_food \notin {<<>>, None} =>
          Estimates(1) = 1
    /\ tab = 3 /\ pc = "done" /\ transcribed_text \notin {<<>>, None} =>
          Estimates(3) = 1

\* a transcript of one blank is sent for estimation by the audio block
C15_Witness ==
    /\ tab = 3
    /\ pc = "calc_wait"
    /\ result.status = "completed"
    /\ transcribed_text = <<" ">>
    /\ req.payload = PromptHead \o <<" ">> \o PromptTail
=============================================================================
